---- MODULE Spec2Model ----
(***************************************************************************)
(* Live coaching core of gemini-eyes: the movement completion detectors of *)
(* RealtimeCoachingService, its per-user session store and interval gate,  *)
(* and the live-coaching endpoints of api/views.py.                        *)
(*                                                                         *)
(* Units.  Image coordinates are integers in hundredths (0.01).  A joint   *)
(* average (a + b) / 2 is kept doubled, and a smoothed average sum / len   *)
(* is kept multiplied by SmoothDen, so every value the code compares is an *)
(* exact integer in units of 0.01 / Unit.  Wall-clock time is counted in   *)
(* half seconds.  Arithmetic is exact (no floating-point rounding).        *)
(***************************************************************************)
EXTENDS Integers, Sequences, FiniteSets, TLC

VARIABLES
    now,                \* time.time(), in half seconds
    squat,              \* RealtimeCoachingService._squat_detection_state
    user_states,        \* RealtimeCoachingService.user_states
    last_coaching_time, \* RealtimeCoachingService.last_coaching_time
    resp,               \* the last call and its outbound result
    cycle,              \* observer: the depth cycle the detector is in
    own,                \* observer: depth-detector state each user's own frames give
    threads,            \* concurrent analyze_live_frame requests (views.py)
    conc_base,          \* observer: rep_count when the concurrent requests began
    frame_buffer,       \* the session's frame buffer, newest last
    user_row            \* the requesting user's row of api.User (models.py)

vars == <<now, squat, user_states, last_coaching_time, resp, cycle, own,
          threads, conc_base, frame_buffer, user_row>>

-----------------------------------------------------------------------------
(* Bounds of the model *)

MaxReps == 2
\* how far the clock runs, in half seconds
MaxTime == 10
\* the clock step of a session: one rep interval (2.5 s)
GateStep == 5
\* the wall clock starts well past zero, as time.time() does
Epoch == 20
\* settings.RATE_LIMIT_ANALYSES_PER_DAY and _PER_HOUR, as configured
RATE_LIMIT_ANALYSES_PER_DAY == 3
RATE_LIMIT_ANALYSES_PER_HOUR == 2
\* the hours and days the clock of analyze_video requests runs over
MaxHours == 2
MaxDays == 1
\* how many frames a session pushes into its frame buffer
MaxFrames == 103

-----------------------------------------------------------------------------
(* Landmarks: a pose_data value and the entries of its landmark list *)

\* a landmark entry: a coordinate record, or something malformed
\*   "dict"   {'x': x, 'y': y}
\*   "empty"  {}            (falsy; .get gives the default 0)
\*   "null"   None          (falsy; .get raises AttributeError)
\*   "scalar" a non-record such as "a" (truthy; .get raises AttributeError)
\*   "ynull"  {'x': x, 'y': None} (arithmetic on y raises TypeError)
Pt(x, y) == [kind |-> "dict", x |-> x, y |-> y]
Bad(k) == [kind |-> k, x |-> 0, y |-> 0]

\* pose_data: "empty" ({} or None), "nokey" (no 'landmarks' key),
\* "nulllist" ('landmarks': None) or "list"
PoseData(k, items) == [kind |-> k, items |-> items]

\* landmarks[i], Python's 0-based index
At(landmarks, i) == landmarks[i + 1]

\* truthiness of a landmark entry (`left_ankle and right_ankle`)
Truthy(e) == e.kind \in {"dict", "scalar", "ynull"}

\* e.get(k, 0): value, or the exception it raises
GetExc(e) == IF e.kind \in {"null", "scalar"} THEN "AttributeError" ELSE "none"
GetY(e) == IF e.kind = "dict" THEN e.y ELSE 0
GetX(e) == IF e.kind \in {"dict", "ynull"} THEN e.x ELSE 0
YIsNone(e) == e.kind = "ynull"

\* a.get('y', 0) op b.get('y', 0): both .get calls run before the operator
BinYExc(a, b) ==
    IF GetExc(a) # "none" \/ GetExc(b) # "none" THEN "AttributeError"
    ELSE IF YIsNone(a) \/ YIsNone(b) THEN "TypeError"
    ELSE "none"

\* the first exception of a sequence of statements
FirstExc(excs) ==
    IF \E i \in 1..Len(excs) : excs[i] # "none"
    THEN excs[CHOOSE i \in 1..Len(excs) :
                 excs[i] # "none" /\ \A j \in 1..(i - 1) : excs[j] = "none"]
    ELSE "none"

\* what a detector's `except (KeyError, TypeError)` leaves of an exception
InnerCatch(exc) == IF exc = "TypeError" THEN "False" ELSE "Raise"

Abs(n) == IF n < 0 THEN -n ELSE n

-----------------------------------------------------------------------------
(* Depth-cycle detector: _detect_squat_completion *)

HistoryCap == 5
SmoothDen == 60
Unit == 2 * SmoothDen

\* a threshold of h hundredths in the units of the smoothed average
Th(h) == h * Unit

RECURSIVE SumSeq(_)
SumSeq(s) == IF s = <<>> THEN 0 ELSE Head(s) + SumSeq(Tail(s))

\* sum(position_history) / len(position_history), times Unit / 2
AvgPosition(history) == SumSeq(history) * (SmoothDen \div Len(history))

Min2(a, b) == IF a < b THEN a ELSE b

NoSquatState ==
    [exists |-> FALSE, current_state |-> "standing",
     min_depth_reached |-> 0, position_history |-> <<>>]

FreshSquatState ==
    [exists |-> TRUE, current_state |-> "standing",
     min_depth_reached |-> 0, position_history |-> <<>>]

\* a history that keeps every sample
PushHistoryKeepAll(history, d) == Append(history, d)

\* position_history.append(d); pop(0) when longer than 5
PushHistory(history, d) ==
    LET h == Append(history, d)
    IN IF Len(h) > HistoryCap THEN Tail(h) ELSE h

\* a depth test that also counts a cycle of exactly the threshold depth
DepthCountsInclusive(min_depth_reached) == min_depth_reached <= Th(-8)

\* the cycle ends in state ascending: does it count?
DepthCounts(min_depth_reached) == min_depth_reached < Th(-8)

\* a descent that keeps the depth it started with
TrackDepthStale(min_depth_reached, avg) == min_depth_reached

\* min(state['min_depth_reached'], avg_position) while descending
TrackDepth(min_depth_reached, avg) == Min2(min_depth_reached, avg)

\* a return to standing that asks for a smoothed position above +0.10
BackToStandingHigh(avg) == avg > Th(10)

\* line 208: back to standing position
BackToStanding(avg) == avg > Th(5)

\* the state machine on the smoothed position (lines 182-224)
SquatMachine(st, avg) ==
    CASE st.current_state = "standing" ->
           IF avg < Th(2)
           THEN [result |-> "False",
                 state |-> [st EXCEPT !.current_state = "descending",
                                      !.min_depth_reached = avg]]
           ELSE [result |-> "False", state |-> st]
      [] st.current_state = "descending" ->
           LET m == TrackDepth(st.min_depth_reached, avg)
           IN [result |-> "False",
               state |-> [st EXCEPT !.min_depth_reached = m,
                                    !.current_state =
                                        IF avg < Th(-8) THEN "bottom"
                                        ELSE IF avg > Th(2) THEN "ascending"
                                        ELSE "descending"]]
      [] st.current_state = "bottom" ->
           IF avg > st.min_depth_reached + Th(3)
           THEN [result |-> "False",
                 state |-> [st EXCEPT !.current_state = "ascending"]]
           ELSE [result |-> "False", state |-> st]
      [] OTHER ->
           IF BackToStanding(avg)
           THEN [result |-> IF DepthCounts(st.min_depth_reached)
                            THEN "True" ELSE "False",
                 state |-> FreshSquatState]
           ELSE [result |-> "False", state |-> st]

\* _detect_squat_completion(landmarks) on detector state st
DetectSquat(st, landmarks) ==
    IF Len(landmarks) < 28 THEN [result |-> "False", state |-> st]
    ELSE IF Len(landmarks) <= 28
            \/ ~(Truthy(At(landmarks, 27)) /\ Truthy(At(landmarks, 28)))
    THEN [result |-> "False", state |-> st]
    ELSE
      LET left_hip == At(landmarks, 23)
          right_hip == At(landmarks, 24)
          left_knee == At(landmarks, 25)
          right_knee == At(landmarks, 26)
          exc == FirstExc(<<BinYExc(left_hip, right_hip),
                            BinYExc(left_knee, right_knee),
                            BinYExc(At(landmarks, 27), At(landmarks, 28))>>)
          hip2 == GetY(left_hip) + GetY(right_hip)
          knee2 == GetY(left_knee) + GetY(right_knee)
          hip_knee_diff == knee2 - hip2
          st0 == IF st.exists THEN st ELSE FreshSquatState
          st1 == [st0 EXCEPT !.position_history =
                                 PushHistory(st0.position_history, hip_knee_diff)]
      IN IF exc # "none" THEN [result |-> InnerCatch(exc), state |-> st]
         ELSE SquatMachine(st1, AvgPosition(st1.position_history))

-----------------------------------------------------------------------------
(* Single-frame detectors *)

\* landmarks[i] raises IndexError past the end of the list
IndexExc(landmarks, idxs) ==
    IF \E i \in idxs : i >= Len(landmarks) THEN "IndexError" ELSE "none"

\* what a detector does with exception exc raised inside its try block;
\* IndexError passes to detect_movement_completion, which catches it
DetectorCatch(exc) ==
    IF exc \in {"TypeError", "IndexError"} THEN "False" ELSE "Raise"

BoolResult(b) == IF b THEN "True" ELSE "False"

\* _detect_pushup_completion
DetectPushup(landmarks) ==
    IF Len(landmarks) < 16 THEN "False"
    ELSE IF IndexExc(landmarks, {11, 12, 15, 16}) # "none" THEN "False"
    ELSE
      LET exc == FirstExc(<<BinYExc(At(landmarks, 11), At(landmarks, 12)),
                            BinYExc(At(landmarks, 15), At(landmarks, 16))>>)
          shoulder2 == GetY(At(landmarks, 11)) + GetY(At(landmarks, 12))
          wrist2 == GetY(At(landmarks, 15)) + GetY(At(landmarks, 16))
      IN IF exc # "none" THEN DetectorCatch(exc)
         ELSE BoolResult(wrist2 - shoulder2 > 2 * 5)

\* arms_up of _detect_jumping_jack_completion
ArmsUp(landmarks) ==
    /\ GetY(At(landmarks, 15)) < GetY(At(landmarks, 11))
    /\ GetY(At(landmarks, 16)) < GetY(At(landmarks, 12))

\* legs_together of _detect_jumping_jack_completion (hip width * 1.2)
LegsTogether(landmarks) ==
    10 * Abs(GetX(At(landmarks, 27)) - GetX(At(landmarks, 28)))
        <= 12 * Abs(GetX(At(landmarks, 23)) - GetX(At(landmarks, 24)))

\* _detect_jumping_jack_completion
DetectJumpingJack(landmarks) ==
    IF Len(landmarks) < 20 THEN "False"
    ELSE IF IndexExc(landmarks, {11, 12, 15, 16, 23, 24}) # "none" THEN "False"
    ELSE IF Len(landmarks) <= 28
            \/ ~(Truthy(At(landmarks, 27)) /\ Truthy(At(landmarks, 28)))
    THEN "False"
    ELSE
      LET left_ok == BinYExc(At(landmarks, 15), At(landmarks, 11))
          left_up == GetY(At(landmarks, 15)) < GetY(At(landmarks, 11))
          \* `and` skips the right arm when the left arm is not up
          arms_exc == IF left_ok # "none" THEN left_ok
                      ELSE IF left_up
                      THEN BinYExc(At(landmarks, 16), At(landmarks, 12))
                      ELSE "none"
          exc == FirstExc(<<arms_exc,
                            GetExc(At(landmarks, 23)), GetExc(At(landmarks, 24)),
                            GetExc(At(landmarks, 27)), GetExc(At(landmarks, 28))>>)
      IN IF exc # "none" THEN DetectorCatch(exc)
         ELSE BoolResult(ArmsUp(landmarks) /\ LegsTogether(landmarks))

\* _detect_basketball_shot_completion
DetectBasketball(landmarks) ==
    IF Len(landmarks) < 16 THEN "False"
    ELSE IF IndexExc(landmarks, {15, 16, 0}) # "none" THEN "False"
    ELSE
      LET nose == At(landmarks, 0)
          exc == FirstExc(<<BinYExc(At(landmarks, 15), At(landmarks, 16)),
                            GetExc(nose),
                            IF YIsNone(nose) THEN "TypeError" ELSE "none">>)
          wrist2 == GetY(At(landmarks, 15)) + GetY(At(landmarks, 16))
      IN IF exc # "none" THEN DetectorCatch(exc)
         ELSE BoolResult(wrist2 > 2 * GetY(nose) + 2 * 10)

\* _detect_swing_completion
DetectSwing(landmarks) ==
    IF Len(landmarks) < 16 THEN "False"
    ELSE IF IndexExc(landmarks, {15, 16, 11, 12}) # "none" THEN "False"
    ELSE
      LET exc == FirstExc(<<BinYExc(At(landmarks, 11), At(landmarks, 12)),
                            BinYExc(At(landmarks, 15), At(landmarks, 16))>>)
          shoulder2 == GetY(At(landmarks, 11)) + GetY(At(landmarks, 12))
          wrist2 == GetY(At(landmarks, 15)) + GetY(At(landmarks, 16))
      IN IF exc # "none" THEN DetectorCatch(exc)
         ELSE BoolResult(Abs(wrist2 - shoulder2) < 2 * 15)

\* _detect_plank_hold_completion at wall-clock time t (half seconds)
DetectPlank(landmarks, t) ==
    IF Len(landmarks) < 16 THEN "False"
    ELSE IF IndexExc(landmarks, {11, 12, 23, 24}) # "none" THEN "False"
    ELSE
      LET exc == FirstExc(<<BinYExc(At(landmarks, 11), At(landmarks, 12)),
                            BinYExc(At(landmarks, 23), At(landmarks, 24))>>)
          shoulder2 == GetY(At(landmarks, 11)) + GetY(At(landmarks, 12))
          hip2 == GetY(At(landmarks, 23)) + GetY(At(landmarks, 24))
      IN IF exc # "none" THEN DetectorCatch(exc)
         ELSE BoolResult(Abs(shoulder2 - hip2) < 2 * 10 /\ t % (2 * 10) < 2 * 1)

\* _detect_generic_movement_completion at wall-clock time t (half seconds)
DetectGeneric(landmarks, t) ==
    IF Len(landmarks) < 10 THEN "False"
    ELSE BoolResult(t % (2 * 8) < 2 * 1)

-----------------------------------------------------------------------------
(* Activity names.  A name is known by its lower-cased form and by the     *)
(* key terms that are substrings of that form.                             *)

ActivityNames ==
    {"squat", "Squat Form Check", "pushup", "pushups", "push up",
     "push-up technique", "jumping jacks", "basketball shooting", "tennis practice", "golf swing",
     "plank", "wall sit", "plank to squat", "general"}

\* activity_type.lower()
Lower(activity_type) ==
    IF activity_type = "Squat Form Check" THEN "squat form check"
    ELSE activity_type

\* the key terms contained in a lower-cased name
Terms(activity_lower) ==
    CASE activity_lower \in {"squat", "squat form check"} -> {"squat"}
      [] activity_lower \in {"pushup", "pushups"} -> {"pushup"}
      [] activity_lower = "push up" -> {"push up"}
      [] activity_lower = "push-up technique" -> {"push-up"}
      [] activity_lower = "jumping jacks" -> {"jumping jack"}
      [] activity_lower = "basketball shooting" -> {"basketball"}
      [] activity_lower = "tennis practice" -> {"tennis"}
      [] activity_lower = "golf swing" -> {"golf"}
      [] activity_lower = "plank" -> {"plank"}
      [] activity_lower = "wall sit" -> {"wall sit"}
      [] activity_lower = "plank to squat" -> {"plank", "squat"}
      [] OTHER -> {}

\* `term in activity_lower`, `activity_lower.find(term) != -1`
Contains(activity_type, term) == term \in Terms(Lower(activity_type))

\* the branch of detect_movement_completion taken for a name
DetectorOf(activity_type) ==
    IF Contains(activity_type, "squat") THEN "squat"
    ELSE IF Contains(activity_type, "pushup") \/ Contains(activity_type, "push-up")
    THEN "pushup"
    ELSE IF Contains(activity_type, "jumping jack") THEN "jumping jack"
    ELSE IF Contains(activity_type, "basketball") THEN "basketball"
    ELSE IF Contains(activity_type, "tennis") \/ Contains(activity_type, "golf")
    THEN "swing"
    ELSE IF Contains(activity_type, "plank") THEN "plank"
    ELSE "generic"

\* a single-frame detector that creates the depth detector's state
ReturnOnlyCreating(result, st) == [result |-> result, state |-> FreshSquatState]

\* `return self._detect_..._completion(landmarks)` of a detector that reads
\* only its argument: the service is left as it was
ReturnOnly(result, st) == [result |-> result, state |-> st]

\* detect_movement_completion(pose_data, activity_type) on detector state st
\* at wall-clock time t: the result ("True", "False", or "Raise" when an
\* exception leaves the function) and the detector state afterwards
DetectMovementCompletion(st, pose_data, activity_type, t) ==
    IF pose_data.kind \in {"empty", "nokey"}
    THEN [result |-> "False", state |-> st]
    ELSE IF pose_data.kind = "nulllist"
    \* len(None) raises TypeError, caught at line 130
    THEN [result |-> "False", state |-> st]
    ELSE
      LET landmarks == pose_data.items
          d == DetectorOf(activity_type)
      IN CASE d = "squat" -> DetectSquat(st, landmarks)
           [] d = "pushup" -> ReturnOnly(DetectPushup(landmarks), st)
           [] d = "jumping jack" -> ReturnOnly(DetectJumpingJack(landmarks), st)
           [] d = "basketball" -> ReturnOnly(DetectBasketball(landmarks), st)
           [] d = "swing" -> ReturnOnly(DetectSwing(landmarks), st)
           [] d = "plank" -> ReturnOnly(DetectPlank(landmarks, t), st)
           [] OTHER -> ReturnOnly(DetectGeneric(landmarks, t), st)

-----------------------------------------------------------------------------
(* Inputs: landmark lists of 33 entries, and malformed ones *)

NumLandmarks == 33

\* a full landmark list, entries `over` replacing the neutral ones
Landmarks(over) ==
    [i \in 1..NumLandmarks |->
        IF (i - 1) \in DOMAIN over THEN over[i - 1] ELSE Pt(50, 50)]

\* hips d hundredths above the knees, ankles present
SquatLandmarks(d) ==
    Landmarks((23 :> Pt(45, 50)) @@ (24 :> Pt(55, 50)) @@
              (25 :> Pt(45, 50 + d)) @@ (26 :> Pt(55, 50 + d)) @@
              (27 :> Pt(45, 90)) @@ (28 :> Pt(55, 90)))

\* wrists at height wy (shoulders at 30), ankles ax apart (hips 10 apart)
ArmLegLandmarks(wy, ax) ==
    Landmarks((0 :> Pt(50, 10)) @@
              (11 :> Pt(45, 30)) @@ (12 :> Pt(55, 30)) @@
              (15 :> Pt(40, wy)) @@ (16 :> Pt(60, wy)) @@
              (23 :> Pt(45, 50)) @@ (24 :> Pt(55, 50)) @@
              (27 :> Pt(50 - ax, 90)) @@ (28 :> Pt(50 + ax, 90)))

Depths == {-15, -8, 10}

SquatPoses == {PoseData("list", SquatLandmarks(d)) : d \in Depths}

ArmLegPoses ==
    {PoseData("list", ArmLegLandmarks(wy, ax)) : wy \in {20, 40}, ax \in {5, 15}}

\* a list cut to its first n entries
Prefix(landmarks, n) == [i \in 1..n |-> landmarks[i]]

\* a list with entry i replaced
WithEntry(landmarks, i, e) == [landmarks EXCEPT ![i + 1] = e]

MalformedPoses ==
    {PoseData("empty", <<>>), PoseData("nokey", <<>>), PoseData("nulllist", <<>>),
     PoseData("list", <<>>),
     PoseData("list", Prefix(SquatLandmarks(10), 16)),
     PoseData("list", Prefix(SquatLandmarks(10), 28))}
    \cup {PoseData("list", WithEntry(SquatLandmarks(10), i, Bad(k))) :
             i \in {11, 23, 27}, k \in {"empty", "null", "scalar", "ynull"}}

\* a pose that is not a full list of coordinate records
IsMalformed(pose_data) ==
    \/ pose_data.kind # "list"
    \/ Len(pose_data.items) < NumLandmarks
    \/ \E i \in 1..Len(pose_data.items) : pose_data.items[i].kind # "dict"

-----------------------------------------------------------------------------
(* The record of the last call *)

\* feedback texts: none, the collaborator's text, the wrapper's error
\* message, and the templated "Rep n complete! Keep going!"
NoText == [kind |-> "none", n |-> 0]
AiText == [kind |-> "ai text", n |-> 0]
NoFramesError == [kind |-> "Error: No frames provided for analysis", n |-> 0]
RepFallback(n) == [kind |-> "Rep n complete! Keep going!", n |-> n]

NoResp ==
    [op |-> "init", user |-> "none", detector |-> "none", result |-> "none",
     malformed |-> FALSE, arms_up |-> FALSE, avg |-> 0, via_bottom |-> FALSE,
     gate |-> "open", outcome |-> "none", calls |-> 0, rep_at_call |-> -1,
     rep_before |-> 0, rep_after |-> 0,
     success |-> FALSE, rep_count |-> 0, movement_completed |-> FALSE,
     should_provide_feedback |-> FALSE, feedback |-> NoText,
     would_complete |-> FALSE, own_result |-> "none", status |-> 200,
     strategy |-> "none", activity |-> "none", interval |-> 0,
     admitted |-> FALSE, run |-> 0, appended |-> 0, samples |-> 0,
     fresh_result |-> "none", has_video |-> FALSE, coaching |-> "none",
     prompt |-> "none", collaborator |-> "none", unhandled |-> FALSE,
     today_at_call |-> -1, hour_at_call |-> -1]

\* arms_up of a pose, when its list has the entries
PoseArmsUp(pose_data) ==
    /\ pose_data.kind = "list"
    /\ Len(pose_data.items) = NumLandmarks
    /\ ArmsUp(pose_data.items)

\* the smoothed position the depth detector computes for a well-formed pose
PoseAvg(st, pose_data) ==
    LET landmarks == pose_data.items
        d == (GetY(At(landmarks, 25)) + GetY(At(landmarks, 26)))
             - (GetY(At(landmarks, 23)) + GetY(At(landmarks, 24)))
    IN AvgPosition(PushHistory(st.position_history, d))

\* len(position_history) when the smoothed position is computed (line 179)
PoseSamples(st, pose_data) == Len(PushHistory(st.position_history, 0))

\* the depth detector gets as far as its state machine on this pose
SquatRuns(pose_data) ==
    /\ pose_data.kind = "list"
    /\ DetectSquat(FreshSquatState, pose_data.items).state # FreshSquatState

-----------------------------------------------------------------------------
(* Observer of the depth cycle: whether the detector has been in bottom     *)
(* since it last left standing, whether the smoothed position has been      *)
(* below -0.08 since then, and how many samples above +0.05 in a row it has *)
(* been fed without being back in standing                                  *)

NoCycle == [bottom |-> FALSE, deep |-> FALSE, run |-> 0]

\* the states between leaving standing and being back in it
IntermediateStates == {"descending", "bottom", "ascending"}

\* the history length plus the number of intermediate states
RecoveryBound == HistoryCap + Cardinality(IntermediateStates)

\* hip_knee_diff, the last sample of the history, is above +0.05
StandingSample(history) == history[Len(history)] > 2 * 5

CycleAfter(c, st_after, avg) ==
    IF st_after.current_state = "standing" THEN NoCycle
    ELSE [bottom |-> c.bottom \/ st_after.current_state = "bottom",
          deep |-> c.deep \/ avg < Th(-8),
          run |-> IF StandingSample(st_after.position_history)
                  THEN Min2(c.run + 1, RecoveryBound + 1)
                  ELSE 0]

-----------------------------------------------------------------------------
(* Usage counters of api.User (models.py); the clock is in half seconds *)

HourLen == 2 * 3600
DayLen == 24 * HourLen

\* timezone.now().date(), in days
Date(t) == t \div DayLen

\* User.reset_daily_count_if_needed at time t
ResetDailyCountIfNeeded(row, t) ==
    IF row.daily_reset_date < Date(t)
    THEN [row EXCEPT !.analyses_today = 0, !.daily_reset_date = Date(t)]
    ELSE row

\* User.reset_hourly_count_if_needed at time t
ResetHourlyCountIfNeeded(row, t) ==
    IF row.hourly_reset_time < t - HourLen
    THEN [row EXCEPT !.analyses_this_hour = 0, !.hourly_reset_time = t]
    ELSE row

\* User.can_analyze at time t, account not banned, rate limiting enabled,
\* no cooldown: the verdict and the row it saved
CanAnalyze(row, t) ==
    LET r == ResetHourlyCountIfNeeded(ResetDailyCountIfNeeded(row, t), t)
    IN [ok |-> /\ r.analyses_today < RATE_LIMIT_ANALYSES_PER_DAY
               /\ r.analyses_this_hour < RATE_LIMIT_ANALYSES_PER_HOUR,
        row |-> r]

\* a record that counts the day's analyses only
RecordAnalysisDailyOnly(row, t) ==
    LET r == ResetHourlyCountIfNeeded(ResetDailyCountIfNeeded(row, t), t)
    IN [r EXCEPT !.analyses_today = @ + 1]

\* User.record_analysis at time t
RecordAnalysis(row, t) ==
    LET r == ResetHourlyCountIfNeeded(ResetDailyCountIfNeeded(row, t), t)
    IN [r EXCEPT !.analyses_today = @ + 1, !.analyses_this_hour = @ + 1]

-----------------------------------------------------------------------------
(* Detector harness: calls of detect_movement_completion *)

Users == {"u1", "u2"}

\* user_states[user_id]: no entry, or the entry get_user_state creates.  The
\* keys analyze_live_frame reads with a default (coaching_phase 'intro',
\* reps_completed 0, last_coaching_time 0) hold that default until written.
NoUserState ==
    [present |-> FALSE, phase |-> "setup", rep_count |-> 0,
     coaching_phase |-> "intro", reps_completed |-> 0, last_coaching_time |-> 0]

NewUserState == [NoUserState EXCEPT !.present = TRUE]

\* a get_user_state that forgets the entry it already has
GetUserStateAlwaysNew(us) == NewUserState

\* get_user_state(user_id) on the user's entry
GetUserState(us) == IF us.present THEN us ELSE NewUserState

\* a row of api.User as created: counters 0, reset stamps at creation
NewUserRow ==
    [analyses_today |-> 0, analyses_this_hour |-> 0,
     daily_reset_date |-> Date(Epoch), hourly_reset_time |-> Epoch]

InitCommon ==
    /\ now = Epoch
    /\ squat = NoSquatState
    /\ user_states = [u \in Users |-> NoUserState]
    /\ last_coaching_time = [u \in Users |-> -1]
    /\ resp = NoResp
    /\ cycle = NoCycle
    /\ own = [u \in Users |-> NoSquatState]
    /\ threads = <<>>
    /\ conc_base = 0
    /\ frame_buffer = <<>>
    /\ user_row = NewUserRow

\* the clock moves on by dt half seconds
Advance(dt) ==
    /\ now + dt <= Epoch + MaxTime
    /\ now' = now + dt
    /\ resp' = [NoResp EXCEPT !.op = "tick"]
    /\ UNCHANGED <<squat, user_states, last_coaching_time, cycle, own,
                   threads, conc_base, frame_buffer, user_row>>

Tick == Advance(1)

\* one call detect_movement_completion(pose_data, activity_type)
DetectCall(activity_type, pose_data) ==
    LET r == DetectMovementCompletion(squat, pose_data, activity_type, now)
        ran == DetectorOf(activity_type) = "squat" /\ SquatRuns(pose_data)
        st0 == IF squat.exists THEN squat ELSE FreshSquatState
        avg == IF ran THEN PoseAvg(st0, pose_data) ELSE 0
    IN /\ squat' = r.state
       /\ cycle' = IF ran THEN CycleAfter(cycle, r.state, avg) ELSE cycle
       /\ resp' = [NoResp EXCEPT !.op = "detect",
                                 !.detector = DetectorOf(activity_type),
                                 !.result = r.result,
                                 !.malformed = IsMalformed(pose_data),
                                 !.arms_up = PoseArmsUp(pose_data),
                                 !.avg = avg,
                                 !.via_bottom = ran /\ cycle.bottom,
                                 !.run = IF ran THEN cycle.run ELSE 0,
                                 !.appended =
                                     IF ran THEN Len(st0.position_history) + 1
                                     ELSE 0,
                                 !.samples =
                                     IF ran THEN PoseSamples(st0, pose_data)
                                     ELSE 0,
                                 !.fresh_result =
                                     DetectMovementCompletion(
                                         NoSquatState, pose_data, activity_type,
                                         Epoch).result]
       /\ UNCHANGED <<now, user_states, last_coaching_time, own,
                      threads, conc_base, frame_buffer, user_row>>

DetectActivities ==
    {"pushup", "jumping jacks", "basketball shooting",
     "golf swing", "plank", "general"}

DetectOtherCall ==
    \E a \in DetectActivities, p \in ArmLegPoses : DetectCall(a, p)

DetectMalformedCall ==
    \E a \in DetectActivities, p \in MalformedPoses : DetectCall(a, p)

\* a call for a squat session in between, hips below the knees
DetectDeepSquatCall ==
    DetectCall("squat", PoseData("list", SquatLandmarks(-15)))

NextDetect == DetectOtherCall \/ DetectMalformedCall \/ DetectDeepSquatCall \/ Tick

SpecDetect == InitCommon /\ [][NextDetect]_vars

\* the depth detector alone, fed one sample after another
DetectSquatCall ==
    \E p \in SquatPoses : DetectCall("squat", p)

SquatMalformedPoses ==
    {PoseData("list", Prefix(SquatLandmarks(10), 28)),
     PoseData("list", WithEntry(SquatLandmarks(10), 23, Bad("null"))),
     PoseData("list", WithEntry(SquatLandmarks(10), 23, Bad("ynull")))}

DetectSquatMalformed ==
    \E p \in SquatMalformedPoses : DetectCall("squat", p)

NextSquat == DetectSquatCall \/ DetectSquatMalformed

SpecSquat == InitCommon /\ [][NextSquat]_vars

-----------------------------------------------------------------------------
(* The interval gate and the analysis collaborator *)

\* get_coaching_interval(activity_type), in half seconds
GetCoachingInterval(activity_type) ==
    IF Contains(activity_type, "plank") THEN 2 * 8
    ELSE IF Contains(activity_type, "golf") THEN 2 * 5
    ELSE IF Contains(activity_type, "tennis") THEN 2 * 4
    ELSE IF Contains(activity_type, "basketball") THEN 2 * 3
    ELSE IF Contains(activity_type, "squat") THEN 5
    ELSE IF Contains(activity_type, "pushup") \/ Contains(activity_type, "push-up")
            \/ Contains(activity_type, "push up") THEN 5
    ELSE IF Contains(activity_type, "jumping jack") THEN 5
    ELSE IF Contains(activity_type, "wall sit") THEN 2 * 8
    ELSE 2 * 3

\* get_activity_feedback_strategy(activity_type)
GetActivityFeedbackStrategy(activity_type) ==
    IF Contains(activity_type, "plank") \/ Contains(activity_type, "wall sit")
    THEN "continuous_hold"
    ELSE IF Contains(activity_type, "golf") \/ Contains(activity_type, "tennis")
    THEN "per_swing"
    ELSE IF \E term \in {"pushup", "push-up", "push up", "squat", "jumping jack"} :
               Contains(activity_type, term)
    THEN "rep_groups"
    ELSE IF Contains(activity_type, "basketball") THEN "per_attempt"
    ELSE "general"

\* should_provide_coaching(user_id, activity_type) at time t, on the user's
\* entry lct of last_coaching_time (-1: no entry)
ShouldProvideCoaching(lct, activity_type, t) ==
    LET last == IF lct = -1 THEN 0 ELSE lct
        open == t - last >= GetCoachingInterval(activity_type)
    IN [open |-> open, lct |-> IF open THEN t ELSE last]

\* should_analyze_frame(user_id, current_time): 2.0 seconds
ShouldAnalyzeFrame(lct, current_time) ==
    IF lct = -1 THEN [open |-> TRUE, lct |-> 0]
    ELSE [open |-> current_time - lct >= 2 * 2, lct |-> lct]

\* what the HTTP call of the collaborator can do
Outcomes == {"text", "empty", "raise"}

\* GeminiAnalysisService.analyze_video_frame(frame_data, prompt), API key
\* configured: timeouts and HTTP errors are raised to the caller
AnalyzeVideoFrame(frame_data, outcome) ==
    IF frame_data = "" THEN [raised |-> FALSE, text |-> NoFramesError]
    ELSE IF outcome = "raise" THEN [raised |-> TRUE, text |-> NoText]
    ELSE IF outcome = "empty" THEN [raised |-> FALSE, text |-> NoText]
    ELSE [raised |-> FALSE, text |-> AiText]

\* what the caller of analyze_video_frame sees the collaborator do
Seen(frame_data, outcome) == IF frame_data = "" THEN "wrapper error" ELSE outcome

\* the frame payloads of a request: none, or an image
Frames == {"", "jpeg"}

-----------------------------------------------------------------------------
(* views.analyze_live_frame *)

\* a rep counter that is not advanced
CountRepSkipped(rep_count) == rep_count

\* user_state['rep_count'] += 1
ViewCountRep(rep_count) == rep_count + 1

\* the detector result and state for a request's pose, "none" when the
\* detector is not called
Detection(called, pose_data, activity_type) ==
    IF called
    THEN DetectMovementCompletion(squat, pose_data, activity_type, now)
    ELSE [result |-> "none", state |-> squat]

\* observer: the same call on the detector state the user's own frames give
OwnDetection(u, called, pose_data, activity_type) ==
    IF called
    THEN DetectMovementCompletion(own[u], pose_data, activity_type, now)
    ELSE [result |-> "none", state |-> own[u]]

\* observer: would the detector report a completed rep for this pose now
WouldComplete(pose_data, activity_type) ==
    DetectMovementCompletion(squat, pose_data, activity_type, now).result = "True"

ViewAnalyzeLiveFrame(u, activity_type, pose_data, frame_data, outcome) ==
    LET base == [NoResp EXCEPT !.op = "view_frame", !.user = u,
                               !.detector = DetectorOf(activity_type),
                               !.strategy =
                                   GetActivityFeedbackStrategy(activity_type),
                               !.activity = activity_type,
                               !.interval = GetCoachingInterval(activity_type),
                               !.admitted = TRUE,
                               !.own_result =
                                   OwnDetection(u, pose_data.kind # "empty",
                                                pose_data, activity_type).result,
                               !.malformed = IsMalformed(pose_data),
                               !.would_complete =
                                   WouldComplete(pose_data, activity_type),
                               !.rep_before = user_states[u].rep_count,
                               !.rep_after = user_states[u].rep_count]
    IN
    IF frame_data = "" /\ pose_data.kind = "empty"
    THEN /\ resp' = [base EXCEPT !.status = 400, !.rep_count = -1]
         /\ UNCHANGED <<now, squat, user_states, last_coaching_time, cycle, own,
                        threads, conc_base, frame_buffer, user_row>>
    ELSE
      LET us0 == GetUserState(user_states[u])
          det == Detection(pose_data.kind # "empty", pose_data, activity_type)
          own_det == OwnDetection(u, pose_data.kind # "empty", pose_data,
                                  activity_type)
          completed == det.result = "True"
          rep == IF completed THEN ViewCountRep(us0.rep_count) ELSE us0.rep_count
          call == AnalyzeVideoFrame(frame_data, outcome)
          has_text == ~call.raised /\ call.text # NoText
      IN /\ rep <= MaxReps
         /\ squat' = det.state
         /\ user_states' = [user_states EXCEPT ![u] = [us0 EXCEPT !.rep_count = rep]]
         /\ resp' =
              IF det.result = "Raise"
              THEN [base EXCEPT !.result = "Raise", !.status = 500,
                                !.rep_count = -1]
              ELSE IF completed
              THEN [base EXCEPT !.result = det.result,
                                !.outcome = Seen(frame_data, outcome), !.calls = 1,
                                !.rep_at_call = rep, !.rep_after = rep,
                                !.rep_count = rep, !.movement_completed = TRUE,
                                !.should_provide_feedback = has_text,
                                !.feedback = IF has_text THEN call.text ELSE NoText]
              ELSE [base EXCEPT !.result = det.result, !.rep_count = rep]
         /\ own' = [own EXCEPT ![u] = own_det.state]
         /\ UNCHANGED <<now, last_coaching_time, cycle, threads, conc_base, frame_buffer, user_row>>

-----------------------------------------------------------------------------
(* RealtimeCoachingService.analyze_live_frame *)

\* current_rep_count += 1
SvcCountRep(current_rep_count) == current_rep_count + 1

\* the four names of line 700
WaitForRepNames == {"squat", "squat form check", "pushup", "push-up technique"}

\* a result dict; rep_count -1 when the dict has no such key
SvcOut(success, rep_count, movement_completed, should_provide_feedback, feedback) ==
    [success |-> success, rep_count |-> rep_count,
     movement_completed |-> movement_completed,
     should_provide_feedback |-> should_provide_feedback, feedback |-> feedback]

\* the method on the user's entries us and lct and detector state sq, at wall
\* clock t, with request timestamp ts; o1 and o2 are what the first and the
\* second collaborator call of the request do.  Gives the entries afterwards,
\* the result dict, and what was observed on the way.
SvcAnalyzeLiveFrame(us, lct, sq, activity_type, pose_data, frame_data, ts, t, o1, o2) ==
    LET gate == ShouldProvideCoaching(lct, activity_type, t)
        us0 == GetUserState(us)
        has_landmarks == pose_data.kind = "list" /\ Len(pose_data.items) > 0
        det == IF has_landmarks
               THEN DetectMovementCompletion(sq, pose_data, activity_type, t)
               ELSE [result |-> "none", state |-> sq]
        completed == det.result = "True"
        coaching_phase == us0.coaching_phase
        last == us0.last_coaching_time
        count == IF completed THEN SvcCountRep(us0.reps_completed)
                 ELSE us0.reps_completed
        us1 == IF completed
               THEN [us0 EXCEPT !.reps_completed = count,
                                !.coaching_phase = "feedback",
                                !.last_coaching_time = ts]
               ELSE us0
        call1 == AnalyzeVideoFrame(frame_data, o1)
        n1 == IF completed THEN 1 ELSE 0
        call2 == AnalyzeVideoFrame(IF frame_data = "" THEN "Starting session"
                                   ELSE frame_data, o2)
        call3 == AnalyzeVideoFrame(frame_data, o2)
        obs(result, calls, outcome) ==
            [gate_open |-> TRUE, result |-> result, calls |-> calls,
             outcome |-> IF outcome = "none" THEN "none"
                         ELSE Seen(frame_data, outcome),
             rep_at_call |-> IF completed THEN count ELSE -1]
    IN
    IF ~gate.open
    THEN [us |-> us, lct |-> gate.lct, squat |-> sq,
          out |-> SvcOut(FALSE, -1, FALSE, FALSE, NoText),
          obs |-> [gate_open |-> FALSE, result |-> "none", calls |-> 0,
                   outcome |-> "none", rep_at_call |-> -1]]
    ELSE IF det.result = "Raise"
    \* the exception reaches the handler of line 787
    THEN [us |-> us0, lct |-> gate.lct, squat |-> sq,
          out |-> SvcOut(FALSE, 0, FALSE, FALSE, NoText),
          obs |-> obs("Raise", 0, "none")]
    ELSE IF completed /\ call1.raised
    THEN [us |-> us1, lct |-> gate.lct, squat |-> det.state,
          out |-> SvcOut(TRUE, count, TRUE, TRUE, RepFallback(count)),
          obs |-> obs(det.result, 1, o1)]
    ELSE IF completed /\ call1.text # NoText
    THEN [us |-> us1, lct |-> gate.lct, squat |-> det.state,
          out |-> SvcOut(TRUE, count, TRUE, TRUE, call1.text),
          obs |-> obs(det.result, 1, o1)]
    ELSE IF coaching_phase = "intro"
    THEN IF call2.raised
         THEN [us |-> [us1 EXCEPT !.coaching_phase = "monitoring",
                                  !.last_coaching_time = ts],
               lct |-> gate.lct, squat |-> det.state,
               out |-> SvcOut(FALSE, count, FALSE, FALSE, NoText),
               obs |-> obs(det.result, n1 + 1, IF completed THEN o1 ELSE o2)]
         ELSE IF call2.text # NoText
         THEN [us |-> [us1 EXCEPT !.coaching_phase = "monitoring",
                                  !.last_coaching_time = ts],
               lct |-> gate.lct, squat |-> det.state,
               out |-> SvcOut(TRUE, count, FALSE, TRUE, call2.text),
               obs |-> obs(det.result, n1 + 1, IF completed THEN o1 ELSE o2)]
         ELSE [us |-> us1, lct |-> gate.lct, squat |-> det.state,
               out |-> SvcOut(FALSE, count, FALSE, FALSE, NoText),
               obs |-> obs(det.result, n1 + 1, IF completed THEN o1 ELSE o2)]
    ELSE IF coaching_phase = "monitoring"
    THEN IF Lower(activity_type) \in WaitForRepNames
         THEN [us |-> us1, lct |-> gate.lct, squat |-> det.state,
               out |-> SvcOut(TRUE, count, FALSE, FALSE, NoText),
               obs |-> obs(det.result, n1, IF completed THEN o1 ELSE "none")]
         ELSE IF ts - last < GetCoachingInterval(activity_type)
         THEN [us |-> us1, lct |-> gate.lct, squat |-> det.state,
               out |-> SvcOut(FALSE, count, FALSE, FALSE, NoText),
               obs |-> obs(det.result, n1, IF completed THEN o1 ELSE "none")]
         ELSE IF call3.raised
         THEN [us |-> us1, lct |-> gate.lct, squat |-> det.state,
               out |-> SvcOut(FALSE, count, FALSE, FALSE, NoText),
               obs |-> obs(det.result, n1 + 1, IF completed THEN o1 ELSE o2)]
         ELSE IF call3.text # NoText
         THEN [us |-> [us1 EXCEPT !.last_coaching_time = ts],
               lct |-> gate.lct, squat |-> det.state,
               out |-> SvcOut(TRUE, count, FALSE, TRUE, call3.text),
               obs |-> obs(det.result, n1 + 1, IF completed THEN o1 ELSE o2)]
         ELSE [us |-> us1, lct |-> gate.lct, squat |-> det.state,
               out |-> SvcOut(FALSE, count, FALSE, FALSE, NoText),
               obs |-> obs(det.result, n1 + 1, IF completed THEN o1 ELSE o2)]
    ELSE [us |-> us1, lct |-> gate.lct, squat |-> det.state,
          out |-> SvcOut(FALSE, count, FALSE, FALSE, NoText),
          obs |-> obs(det.result, n1, IF completed THEN o1 ELSE "none")]

\* the record of a request that reached the method
SvcResp(op, u, activity_type, pose_data, r) ==
    [NoResp EXCEPT !.op = op, !.user = u,
                   !.detector = DetectorOf(activity_type),
                   !.strategy = GetActivityFeedbackStrategy(activity_type),
                   !.activity = activity_type,
                   !.interval = GetCoachingInterval(activity_type),
                   !.admitted = TRUE,
                   !.malformed = IsMalformed(pose_data),
                   !.would_complete = WouldComplete(pose_data, activity_type),
                   !.gate = IF r.obs.gate_open THEN "open" ELSE "interval",
                   !.result = r.obs.result,
                   !.calls = r.obs.calls,
                   !.outcome = r.obs.outcome,
                   !.rep_at_call = r.obs.rep_at_call,
                   !.rep_before = user_states[u].reps_completed,
                   !.rep_after = r.us.reps_completed,
                   !.success = r.out.success,
                   !.rep_count = r.out.rep_count,
                   !.movement_completed = r.out.movement_completed,
                   !.should_provide_feedback = r.out.should_provide_feedback,
                   !.feedback = r.out.feedback]

-----------------------------------------------------------------------------
(* Endpoints of api/views.py that reach the method *)

\* views.realtime_coaching: frame_data is required
RealtimeCoaching(u, activity_type, pose_data, frame_data, o1, o2) ==
    LET pre == ShouldAnalyzeFrame(last_coaching_time[u], now)
    IN \E r \in {SvcAnalyzeLiveFrame(user_states[u], pre.lct, squat, activity_type,
                                     pose_data, frame_data, now, now, o1, o2)} :
       /\ frame_data # ""
       /\ IF ~pre.open
          THEN /\ last_coaching_time' = [last_coaching_time EXCEPT ![u] = pre.lct]
               /\ resp' = [NoResp EXCEPT !.op = "realtime_coaching", !.user = u,
                                         !.gate = "too frequent",
                                         !.would_complete =
                                             WouldComplete(pose_data, activity_type),
                                         !.rep_before = user_states[u].reps_completed,
                                         !.rep_after = user_states[u].reps_completed,
                                         !.rep_count = -1]
               /\ UNCHANGED <<squat, user_states>>
          ELSE /\ r.us.reps_completed <= MaxReps
               /\ last_coaching_time' = [last_coaching_time EXCEPT ![u] = r.lct]
               /\ user_states' = [user_states EXCEPT ![u] = r.us]
               /\ squat' = r.squat
               /\ resp' = SvcResp("realtime_coaching", u, activity_type, pose_data, r)
       /\ UNCHANGED <<now, cycle, own, threads, conc_base, frame_buffer, user_row>>

\* views.get_live_feedback: its own interval check, then the method
GetLiveFeedback(u, activity_type, pose_data, frame_data, o1, o2) ==
    LET pre == ShouldProvideCoaching(last_coaching_time[u], activity_type, now)
    IN \E r \in {SvcAnalyzeLiveFrame(user_states[u], pre.lct, squat, activity_type,
                                     pose_data, frame_data, now, now, o1, o2)} :
       LET delivered == r.out.success /\ r.out.feedback # NoText IN
       /\ IF ~pre.open
          THEN /\ last_coaching_time' = [last_coaching_time EXCEPT ![u] = pre.lct]
               /\ resp' = [NoResp EXCEPT !.op = "get_live_feedback", !.user = u,
                                         !.gate = "interval",
                                         !.would_complete =
                                             WouldComplete(pose_data, activity_type),
                                         !.rep_before = user_states[u].reps_completed,
                                         !.rep_after = user_states[u].reps_completed,
                                         !.rep_count = -1]
               /\ UNCHANGED <<squat, user_states>>
          ELSE /\ r.us.reps_completed <= MaxReps
               /\ last_coaching_time' = [last_coaching_time EXCEPT ![u] = r.lct]
               /\ user_states' = [user_states EXCEPT ![u] = r.us]
               /\ squat' = r.squat
               /\ resp' = [SvcResp("get_live_feedback", u, activity_type, pose_data, r)
                             EXCEPT !.should_provide_feedback = delivered,
                                    !.feedback = IF delivered THEN r.out.feedback
                                                 ELSE NoText,
                                    !.rep_count = IF delivered THEN r.out.rep_count
                                                  ELSE -1]
       /\ UNCHANGED <<now, cycle, own, threads, conc_base, frame_buffer, user_row>>

-----------------------------------------------------------------------------
(* Session lifecycle *)

\* views.start_live_coaching; can_analyze is the rate-limit collaborator's answer
StartLiveCoaching(u, can_analyze) ==
    /\ user_states' =
         IF can_analyze
         THEN [user_states EXCEPT ![u] =
                  [GetUserState(user_states[u]) EXCEPT !.phase = "setup",
                                                      !.rep_count = 0]]
         ELSE user_states
    /\ resp' = [NoResp EXCEPT !.op = "start", !.user = u,
                              !.success = can_analyze,
                              !.status = IF can_analyze THEN 200 ELSE 429]
    /\ UNCHANGED <<now, squat, last_coaching_time, cycle, own,
                   threads, conc_base, frame_buffer, user_row>>

\* a stop that clears the two maps instead of deleting the user's keys
StopAllSessions(u) ==
    /\ user_states' = [v \in Users |-> NoUserState]
    /\ last_coaching_time' = [v \in Users |-> -1]
    /\ own' = [own EXCEPT ![u] = NoSquatState]
    /\ resp' = [NoResp EXCEPT !.op = "stop", !.user = u, !.success = TRUE]
    /\ UNCHANGED <<now, squat, cycle, threads, conc_base, frame_buffer, user_row>>

\* views.stop_live_coaching: reset_user_state(user_id)
StopLiveCoaching(u) ==
    /\ user_states' = [user_states EXCEPT ![u] = NoUserState]
    /\ last_coaching_time' = [last_coaching_time EXCEPT ![u] = -1]
    /\ own' = [own EXCEPT ![u] = NoSquatState]
    /\ resp' = [NoResp EXCEPT !.op = "stop", !.user = u, !.success = TRUE]
    /\ UNCHANGED <<now, squat, cycle, threads, conc_base, frame_buffer, user_row>>

-----------------------------------------------------------------------------
(* One user's live session on the stateless detectors *)

SessionActivities == {"pushup", "jumping jacks"}

\* wrists below the shoulders (a pushup's up position), wrists above them
\* with the legs together, no pose at all, and a list with a null entry
SessionPoses ==
    {PoseData("list", ArmLegLandmarks(40, 5)),
     PoseData("list", ArmLegLandmarks(20, 5)),
     PoseData("empty", <<>>),
     PoseData("list", WithEntry(ArmLegLandmarks(40, 5), 11, Bad("null")))}

Start == StartLiveCoaching("u1", TRUE) \/ StartLiveCoaching("u1", FALSE)

Stop == StopLiveCoaching("u1")

ViewFrame ==
    \E a \in SessionActivities, p \in SessionPoses, f \in Frames, o \in Outcomes :
        ViewAnalyzeLiveFrame("u1", a, p, f, o)

Realtime ==
    \E a \in SessionActivities, p \in SessionPoses, o1 \in Outcomes, o2 \in Outcomes :
        RealtimeCoaching("u1", a, p, "jpeg", o1, o2)

LiveFeedback ==
    \E a \in SessionActivities, p \in SessionPoses, f \in Frames, o \in Outcomes :
        GetLiveFeedback("u1", a, p, f, o, o)

Wait == Advance(GateStep)

Next == Start \/ Stop \/ ViewFrame \/ Realtime \/ LiveFeedback \/ Wait

Init == InitCommon

Spec == Init /\ [][Next]_vars

-----------------------------------------------------------------------------
(* Two users' frames through views.analyze_live_frame, activity "squat":    *)
(* u1 is down in a squat, u2 stands                                         *)

SharedFrame ==
    \/ ViewAnalyzeLiveFrame("u1", "squat", PoseData("list", SquatLandmarks(-15)),
                            "jpeg", "text")
    \/ ViewAnalyzeLiveFrame("u2", "squat", PoseData("list", SquatLandmarks(10)),
                            "jpeg", "text")

NextShared == SharedFrame

SpecShared == InitCommon /\ [][NextShared]_vars

-----------------------------------------------------------------------------
(* One user's squat session through views.analyze_live_frame, a frame       *)
(* attached to every event, with start and stop                             *)

SquatSessionFrame ==
    \E d \in {-15, 10} :
        ViewAnalyzeLiveFrame("u1", "squat", PoseData("list", SquatLandmarks(d)),
                             "jpeg", "text")

SquatSessionStart == StartLiveCoaching("u1", TRUE)

SquatSessionStop == StopLiveCoaching("u1")

NextSquatSession == SquatSessionFrame \/ SquatSessionStart \/ SquatSessionStop

SpecSquatSession == InitCommon /\ [][NextSquatSession]_vars

-----------------------------------------------------------------------------
(* Two users' sessions side by side on the pushup detector: events on two   *)
(* endpoints, start, stop and the clock                                     *)

UsersPoses ==
    {PoseData("list", ArmLegLandmarks(40, 5)), PoseData("list", ArmLegLandmarks(20, 5))}

UsersFrame ==
    \E u \in Users, p \in UsersPoses :
        ViewAnalyzeLiveFrame(u, "pushup", p, "jpeg", "text")

UsersRealtime ==
    \E u \in Users, p \in UsersPoses :
        RealtimeCoaching(u, "pushup", p, "jpeg", "text", "text")

UsersStart == \E u \in Users : StartLiveCoaching(u, TRUE)

UsersStop == \E u \in Users : StopLiveCoaching(u)

NextUsers == UsersFrame \/ UsersRealtime \/ UsersStart \/ UsersStop \/ Wait

SpecUsers == InitCommon /\ [][NextUsers]_vars

-----------------------------------------------------------------------------
(* One user's events under every activity name *)

\* wrists below the shoulders, and wrists above them with the legs together
DispatchPoses ==
    {PoseData("list", ArmLegLandmarks(40, 5)),
     PoseData("list", ArmLegLandmarks(20, 5))}

DispatchEvent ==
    \E a \in ActivityNames, p \in DispatchPoses :
        RealtimeCoaching("u1", a, p, "jpeg", "text", "text")

NextDispatch == DispatchEvent \/ Wait

SpecDispatch == InitCommon /\ [][NextDispatch]_vars

-----------------------------------------------------------------------------
(* The frame buffer of a session (section 4.1 of the design): a bounded     *)
(* sequence of frames, newest last.  A frame is named by the clock tick it  *)
(* was captured at.                                                         *)

BufferCapacity == 100

\* a push that appends without evicting
PushUnbounded(buffer, frame) == Append(buffer, frame)

\* push(frame): append, evicting the oldest frame when over capacity
Push(buffer, frame) ==
    LET b == Append(buffer, frame)
    IN IF Len(b) > BufferCapacity THEN SubSeq(b, 2, Len(b)) ELSE b

\* clear()
Clear(buffer) == <<>>

\* an event with a frame: the frame captured at the next tick is pushed
BufferPush ==
    /\ now < Epoch + MaxFrames
    /\ now' = now + 1
    /\ frame_buffer' = Push(frame_buffer, now')
    /\ resp' = [NoResp EXCEPT !.op = "push"]
    /\ UNCHANGED <<squat, user_states, last_coaching_time, cycle, own,
                   threads, conc_base, user_row>>

\* a batch fires: the buffer is cleared
BufferClear ==
    /\ frame_buffer' = Clear(frame_buffer)
    /\ resp' = [NoResp EXCEPT !.op = "clear"]
    /\ UNCHANGED <<now, squat, user_states, last_coaching_time, cycle, own,
                   threads, conc_base, user_row>>

NextBuffer == BufferPush \/ BufferClear

SpecBuffer == InitCommon /\ [][NextBuffer]_vars

-----------------------------------------------------------------------------
(* views.analyze_video: one user's requests, hours and days apart *)

\* request.POST['coaching_data']: absent, JSON of a session, the JSON of an
\* empty object (a non-empty string that parses to a falsy value), not JSON
CoachingInputs == {"none", "valid", "empty", "invalid"}

\* template_id / custom_prompt: a known template, an unknown one, a custom
\* prompt of 10..500 characters, a shorter one, a longer one, neither
PromptInputs == {"template", "unknown template", "custom", "short", "long", "none"}

\* what analyze_activity / analyze_coaching_session return: both catch every
\* exception and return success False
AnalysisOutcomes == {"success", "failure"}

\* the response of a request that stopped before the analysis
EarlyResponse(has_video, coaching, prompt, code) ==
    [NoResp EXCEPT !.op = "analyze_video", !.status = code,
                   !.has_video = has_video, !.coaching = coaching,
                   !.prompt = prompt, !.rep_count = -1]

\* analyze_video(request): has_video is 'video' in request.FILES, video_valid
\* the verdict of validate_video
AnalyzeVideo(has_video, video_valid, coaching, prompt, outcome) ==
    LET c == CanAnalyze(user_row, now)
        has_coaching_data == coaching # "none"
        row1 == RecordAnalysis(c.row, now)
        early(code) == EarlyResponse(has_video, coaching, prompt, code)
    IN
    /\ IF ~c.ok
       THEN user_row' = c.row /\ resp' = early(429)
       ELSE IF ~has_video /\ ~has_coaching_data
       THEN user_row' = c.row /\ resp' = early(400)
       ELSE IF coaching = "invalid"
       THEN user_row' = c.row /\ resp' = early(400)
       ELSE IF prompt \notin {"template", "custom"}
       THEN user_row' = c.row /\ resp' = early(400)
       ELSE IF has_video /\ ~video_valid
       THEN user_row' = c.row /\ resp' = early(400)
       ELSE IF ~has_video
       \* video_file.size on None raises AttributeError at line 173 and again
       \* in the handler at line 237: the exception leaves the view
       THEN /\ user_row' = c.row
            /\ resp' = [early(500) EXCEPT !.unhandled = TRUE]
       ELSE /\ user_row' = row1
            /\ resp' = [early(IF outcome = "success" THEN 200 ELSE 500) EXCEPT
                           !.calls = 1,
                           !.outcome = outcome,
                           !.success = outcome = "success",
                           !.collaborator = IF coaching = "valid"
                                            THEN "analyze_coaching_session"
                                            ELSE "analyze_activity",
                           !.today_at_call = row1.analyses_today,
                           !.hour_at_call = row1.analyses_this_hour]
    /\ UNCHANGED <<now, squat, user_states, last_coaching_time, cycle, own,
                   threads, conc_base, frame_buffer>>

AnalyzeRequest ==
    \E has_video \in BOOLEAN, video_valid \in BOOLEAN, coaching \in CoachingInputs,
       prompt \in PromptInputs, outcome \in AnalysisOutcomes :
        AnalyzeVideo(has_video, video_valid, coaching, prompt, outcome)

\* the clock moves on by dt half seconds; no request is in progress
ClockPasses(dt) ==
    /\ now' = now + dt
    /\ resp' = [NoResp EXCEPT !.op = "tick"]
    /\ UNCHANGED <<squat, user_states, last_coaching_time, cycle, own,
                   threads, conc_base, frame_buffer, user_row>>

\* a little more than an hour passes
HourPasses ==
    /\ (now - Epoch) % DayLen < MaxHours * (HourLen + 1)
    /\ ClockPasses(HourLen + 1)

\* a day passes
DayPasses ==
    /\ Date(now) < MaxDays
    /\ ClockPasses(DayLen)

NextAnalyze == AnalyzeRequest \/ HourPasses \/ DayPasses

SpecAnalyze == InitCommon /\ [][NextAnalyze]_vars

-----------------------------------------------------------------------------
(* Two requests of one user inside views.analyze_live_frame at once, on the *)
(* pushup detector: each thread runs lines 570-590 one statement at a time; *)
(* the += of line 590 is a load and a store                                 *)

ConcUser == "u1"

ConcPoses ==
    {PoseData("list", ArmLegLandmarks(40, 5)), PoseData("list", ArmLegLandmarks(20, 5))}

IdleThread == [pc |-> "idle", detected |-> FALSE, loaded |-> 0]

InitConc ==
    /\ now = Epoch
    /\ squat = NoSquatState
    /\ user_states = [u \in Users |-> NoUserState]
    /\ last_coaching_time = [u \in Users |-> -1]
    /\ resp = NoResp
    /\ cycle = NoCycle
    /\ own = [u \in Users |-> NoSquatState]
    /\ threads = <<IdleThread, IdleThread>>
    /\ conc_base = 0
    /\ frame_buffer = <<>>
    /\ user_row = NewUserRow

\* two requests arrive together once the previous two have returned
ConcBegin ==
    /\ \A t \in 1..2 : threads[t].pc \in {"idle", "done"}
    /\ user_states[ConcUser].rep_count < MaxReps
    /\ threads' = [t \in 1..2 |-> [IdleThread EXCEPT !.pc = "started"]]
    /\ user_states' = [user_states EXCEPT ![ConcUser] = GetUserState(@)]
    /\ conc_base' = user_states[ConcUser].rep_count
    /\ resp' = [NoResp EXCEPT !.op = "requests", !.user = ConcUser]
    /\ UNCHANGED <<now, squat, last_coaching_time, cycle, own, frame_buffer, user_row>>

\* line 575: movement_completed = detect_movement_completion(...)
ConcDetect(t) ==
    /\ threads[t].pc = "started"
    /\ \E p \in ConcPoses :
          LET det == DetectMovementCompletion(squat, p, "pushup", now)
          IN threads' = [threads EXCEPT
                            ![t].pc = IF det.result = "True" THEN "detected"
                                      ELSE "done",
                            ![t].detected = det.result = "True"]
    /\ resp' = [NoResp EXCEPT !.op = "detect", !.user = ConcUser]
    /\ UNCHANGED <<now, squat, user_states, last_coaching_time, cycle, own,
                   conc_base, frame_buffer, user_row>>

\* line 590, the read of user_state['rep_count']
ConcLoad(t) ==
    /\ threads[t].pc = "detected"
    /\ threads' = [threads EXCEPT ![t].pc = "loaded",
                                  ![t].loaded = user_states[ConcUser].rep_count]
    /\ resp' = [NoResp EXCEPT !.op = "load", !.user = ConcUser]
    /\ UNCHANGED <<now, squat, user_states, last_coaching_time, cycle, own,
                   conc_base, frame_buffer, user_row>>

\* line 590, the write of user_state['rep_count']
ConcStore(t) ==
    /\ threads[t].pc = "loaded"
    /\ threads' = [threads EXCEPT ![t].pc = "stored"]
    /\ user_states' = [user_states EXCEPT
                          ![ConcUser].rep_count = ViewCountRep(threads[t].loaded)]
    /\ resp' = [NoResp EXCEPT !.op = "store", !.user = ConcUser]
    /\ UNCHANGED <<now, squat, last_coaching_time, cycle, own, conc_base, frame_buffer, user_row>>

\* lines 596-669: the collaborator call and the response
ConcRespond(t) ==
    /\ threads[t].pc = "stored"
    /\ threads' = [threads EXCEPT ![t].pc = "done"]
    /\ \E o \in Outcomes :
          LET call == AnalyzeVideoFrame("jpeg", o)
              has_text == ~call.raised /\ call.text # NoText
          IN resp' = [NoResp EXCEPT !.op = "view_frame", !.user = ConcUser,
                                    !.result = "True", !.outcome = o, !.calls = 1,
                                    !.rep_count = user_states[ConcUser].rep_count,
                                    !.movement_completed = TRUE,
                                    !.should_provide_feedback = has_text,
                                    !.feedback = IF has_text THEN call.text
                                                 ELSE NoText]
    /\ UNCHANGED <<now, squat, user_states, last_coaching_time, cycle, own,
                   conc_base, frame_buffer, user_row>>

ConcStep ==
    \E t \in 1..2 : ConcDetect(t) \/ ConcLoad(t) \/ ConcStore(t) \/ ConcRespond(t)

NextConc == ConcBegin \/ ConcStep

SpecConc == InitConc /\ [][NextConc]_vars

-----------------------------------------------------------------------------
(* Two requests of one user inside should_provide_coaching at once: each    *)
(* thread runs lines 63-73 one statement at a time; the test of line 69 and *)
(* the assignment of line 70 are separate steps                             *)

GateActivity == "squat"

GateIdle == [pc |-> "idle", current_time |-> 0, admitted |-> FALSE]

InitGate ==
    /\ now = Epoch
    /\ squat = NoSquatState
    /\ user_states = [u \in Users |-> NoUserState]
    /\ last_coaching_time = [u \in Users |-> -1]
    /\ resp = NoResp
    /\ cycle = NoCycle
    /\ own = [u \in Users |-> NoSquatState]
    /\ threads = <<GateIdle, GateIdle>>
    /\ conc_base = 0
    /\ frame_buffer = <<>>
    /\ user_row = NewUserRow

\* two requests arrive together once the previous two have returned
GateBegin ==
    /\ \A t \in 1..2 : threads[t].pc \in {"idle", "done"}
    /\ threads' = [t \in 1..2 |-> [GateIdle EXCEPT !.pc = "started"]]
    /\ resp' = [NoResp EXCEPT !.op = "requests", !.user = ConcUser]
    /\ UNCHANGED <<now, squat, user_states, last_coaching_time, cycle, own,
                   conc_base, frame_buffer, user_row>>

\* lines 63-67: current_time = time.time(); the user's entry is created
GateClock(t) ==
    /\ threads[t].pc = "started"
    /\ threads' = [threads EXCEPT ![t].pc = "timed", ![t].current_time = now]
    /\ last_coaching_time' =
          [last_coaching_time EXCEPT ![ConcUser] = IF @ = -1 THEN 0 ELSE @]
    /\ resp' = [NoResp EXCEPT !.op = "clock", !.user = ConcUser]
    /\ UNCHANGED <<now, squat, user_states, cycle, own, conc_base, frame_buffer, user_row>>

\* line 69, the test on last_coaching_time[user_id]; line 73 when it fails
GateTest(t) ==
    /\ threads[t].pc = "timed"
    /\ threads' = [threads EXCEPT
                      ![t].pc = IF threads[t].current_time
                                     - last_coaching_time[ConcUser]
                                   >= GetCoachingInterval(GateActivity)
                                THEN "passed" ELSE "done"]
    /\ resp' = [NoResp EXCEPT !.op = "test", !.user = ConcUser,
                              !.interval = GetCoachingInterval(GateActivity)]
    /\ UNCHANGED <<now, squat, user_states, last_coaching_time, cycle, own,
                   conc_base, frame_buffer, user_row>>

\* lines 70-71: last_coaching_time[user_id] = current_time; return True
GateSet(t) ==
    /\ threads[t].pc = "passed"
    /\ threads' = [threads EXCEPT ![t].pc = "done", ![t].admitted = TRUE]
    /\ last_coaching_time' =
          [last_coaching_time EXCEPT ![ConcUser] = threads[t].current_time]
    /\ resp' = [NoResp EXCEPT !.op = "set", !.user = ConcUser, !.admitted = TRUE]
    /\ UNCHANGED <<now, squat, user_states, cycle, own, conc_base, frame_buffer, user_row>>

GateThreadStep == \E t \in 1..2 : GateClock(t) \/ GateTest(t) \/ GateSet(t)

NextGate == GateBegin \/ GateThreadStep \/ Tick

SpecGate == InitGate /\ [][NextGate]_vars

-----------------------------------------------------------------------------
(* Properties of the depth detector (SpecSquat) *)

SquatStep == resp'.op = "detect" /\ resp'.detector = "squat"

LeavesAscending ==
    squat.current_state = "ascending" /\ squat'.current_state = "standing"

\* C3: a cycle standing -> descending -> bottom -> ascending -> standing
\* returns completed=true on the sample that performs ascending -> standing,
\* and no other sample returns true
C3_FullCycleCompletesOnce ==
    [][SquatStep =>
         /\ (LeavesAscending /\ cycle.bottom => resp'.result = "True")
         /\ (resp'.result = "True" => LeavesAscending)]_vars

C3_Witness ==
    /\ resp.op = "detect" /\ resp.detector = "squat"
    /\ resp.result = "True" /\ resp.via_bottom
    /\ squat.current_state = "standing"

\* C4: a cycle whose smoothed position never drops below -0.08 returns
\* completed=false on every sample; the sample that takes the detector out of
\* ascending (smoothed position above +0.05) leaves it in standing with
\* min_depth_reached 0 and an empty history, counted or not
C4_ShallowCycleDiscarded ==
    [][SquatStep =>
         /\ (resp'.result = "True" => cycle.deep)
         /\ (squat.current_state = "ascending" /\ resp'.avg > Th(5)
               /\ ~resp'.malformed
             => /\ squat'.current_state = "standing"
                /\ squat'.min_depth_reached = 0
                /\ squat'.position_history = <<>>)]_vars

C4_Witness ==
    /\ resp.op = "detect" /\ resp.detector = "squat"
    /\ resp.result = "False" /\ resp.avg > Th(5)
    /\ squat = FreshSquatState

\* C25: the depth detector returns completed=true only on a cycle that has
\* been in bottom since it left standing
C25_CompletedOnlyViaBottom ==
    [][SquatStep /\ resp'.result = "True" => cycle.bottom]_vars

\* C37: position_history never holds more than 5 samples, and it holds at
\* least one whenever the detector computes the smoothed position
C37_HistoryBoundedNonEmpty ==
    /\ Len(squat.position_history) <= HistoryCap
    /\ (resp.op = "detect" /\ resp.detector = "squat" /\ ~resp.malformed
         => resp.samples \in 1..HistoryCap)

\* a sixth sample was appended to a full history and the oldest one dropped
C37_Witness ==
    /\ resp.op = "detect" /\ resp.detector = "squat"
    /\ resp.appended > HistoryCap
    /\ resp.samples = HistoryCap
    /\ Len(squat.position_history) = HistoryCap

\* C33: the detector is never outside standing after more samples above
\* +0.05 in a row than the history length plus the number of intermediate
\* states
C33_StandingSignalRecovers ==
    cycle.run <= RecoveryBound

\* a fifth sample of +0.10 in a row (smoothed position +0.10) brought the
\* detector back to standing after the four before it had left it outside
C33_Witness ==
    /\ resp.op = "detect" /\ resp.detector = "squat"
    /\ resp.run >= HistoryCap - 1
    /\ resp.avg = Th(10)
    /\ squat.current_state = "standing"

-----------------------------------------------------------------------------
(* Properties of a live session (Spec) *)

EventOps == {"view_frame", "realtime_coaching", "get_live_feedback"}

\* the rep counter an endpoint keeps in a user's entry
CountOf(us, op) ==
    IF op = "view_frame" THEN us.rep_count ELSE us.reps_completed

\* C1: between start and stop no inbound event lowers a stored rep count,
\* whatever the detector and the collaborator do
C1_RepCountNeverDecreases ==
    [][resp'.op \in EventOps =>
         \A u \in Users :
            /\ user_states'[u].rep_count >= user_states[u].rep_count
            /\ user_states'[u].reps_completed >= user_states[u].reps_completed]_vars

C1_Witness ==
    /\ resp.op \in EventOps
    /\ resp.result = "False"
    /\ user_states["u1"].rep_count = MaxReps
    /\ user_states["u1"].reps_completed >= 1

\* C2: an event on which the detector returns completed=true has raised the
\* stored rep count by exactly one when the collaborator is called, and the
\* count is still that after the call, whatever the collaborator does
C2_CompletedRepCountedOnce ==
    [][resp'.op \in EventOps /\ resp'.result = "True" =>
         /\ resp'.calls >= 1
         /\ resp'.rep_at_call = CountOf(user_states[resp'.user], resp'.op) + 1
         /\ CountOf(user_states'[resp'.user], resp'.op)
              = CountOf(user_states[resp'.user], resp'.op) + 1]_vars

C2_Witness ==
    /\ resp.op \in EventOps
    /\ resp.result = "True"
    /\ resp.outcome = "raise"
    /\ CountOf(user_states[resp.user], resp.op) = MaxReps

\* C7: an event the interval gate suppresses still goes to the detector and,
\* when it completes a rep, still raises the rep count
C7_IntervalGateKeepsCounting ==
    [][resp'.op \in EventOps /\ resp'.gate = "interval" /\ resp'.would_complete =>
         CountOf(user_states'[resp'.user], resp'.op)
           = CountOf(user_states[resp'.user], resp'.op) + 1]_vars

\* C9: when the collaborator returns nothing or raises on a completed rep, the
\* result still has should_provide_feedback and carries the fallback text of
\* the current rep count
C9_FallbackOnCollaboratorFailure ==
    resp.op \in EventOps /\ resp.result = "True" /\ resp.outcome \in {"empty", "raise"}
    => /\ resp.should_provide_feedback
       /\ resp.feedback = RepFallback(resp.rep_after)

\* the event's request went out to the analysis service (a request without a
\* frame is answered by the wrapper itself)
ReachesCollaborator(r) == r.calls >= 1 /\ r.outcome # "wrapper error"

\* C11: once the response of an event has been produced the session is not
\* in feedback: a completed rep passes through feedback and is back in
\* monitoring when the event returns
C11_FeedbackReturnsToMonitoring ==
    resp.op \in EventOps
    => /\ user_states[resp.user].coaching_phase # "feedback"
       /\ user_states[resp.user].phase # "feedback"

\* C12: an event that follows, at the same instant, a start the rate-limit
\* collaborator denied (can_analyze answers no) makes no call to the analysis
\* collaborator
C12_RateLimitBeforeFeedbackCall ==
    [][/\ resp.op = "start" /\ resp.status = 429
       /\ resp'.op \in EventOps /\ resp'.user = resp.user /\ now' = now
       => ~ReachesCollaborator(resp')]_vars

\* C13: for a rep-group activity the batch gate has just fired on the
\* previous event (repsSinceLastBatch 0, lastBatchAt now); the next event, at
\* the same instant, completes one rep: fewer than 5 reps and less than
\* 7000 ms, so it makes no feedback call
C13_BatchGateOncePerFiveReps ==
    [][/\ resp.op \in EventOps /\ resp.strategy = "rep_groups"
       /\ ReachesCollaborator(resp)
       /\ resp'.op \in EventOps /\ resp'.user = resp.user /\ now' = now
       /\ resp'.strategy = "rep_groups" /\ resp'.result = "True"
       => ~ReachesCollaborator(resp')]_vars

\* C16: right after a start that was admitted the user's session is in phase
\* setup and the rep counts the endpoints report are 0
C16_StartResetsSession ==
    [][resp'.op = "start" /\ resp'.success =>
         /\ user_states'[resp'.user].phase = "setup"
         /\ user_states'[resp'.user].rep_count = 0
         /\ user_states'[resp'.user].reps_completed = 0]_vars

\* C18: two events of one session that each call the feedback service are at
\* least the activity's coaching interval apart (2.5 s for the activities of
\* the session): an event less than that after the previous event's call
\* makes no call
C18_FeedbackCallsSpaced ==
    [][/\ resp.op \in EventOps /\ ReachesCollaborator(resp)
       /\ resp'.op \in EventOps /\ resp'.user = resp.user
       /\ now' - now < GetCoachingInterval("pushup")
       => ~ReachesCollaborator(resp')]_vars

\* C20: an event processed for a session in its initial phase leaves the
\* session in monitoring, on views.analyze_live_frame (phase) and on the
\* endpoints of RealtimeCoachingService.analyze_live_frame (coaching_phase)
C20_FirstEventEntersMonitoring ==
    [][/\ (resp'.op = "view_frame" /\ resp'.status = 200
            /\ user_states[resp'.user].phase = "setup"
          => user_states'[resp'.user].phase = "monitoring")
       /\ (resp'.op \in {"realtime_coaching", "get_live_feedback"}
            /\ resp'.gate = "open" /\ resp'.result # "Raise"
            /\ user_states[resp'.user].coaching_phase = "intro"
          => user_states'[resp'.user].coaching_phase = "monitoring")]_vars

\* the phase edges of the session state machine, under the names of
\* user_state['phase'] (setup) and user_state['coaching_phase'] (intro)
PhaseEdges ==
    {<<"setup", "monitoring">>, <<"intro", "monitoring">>,
     <<"monitoring", "feedback">>, <<"feedback", "monitoring">>}

\* the endpoints that run RealtimeCoachingService.analyze_live_frame
SvcOps == {"realtime_coaching", "get_live_feedback"}

\* C21: an event changes the session phase only along setup -> monitoring,
\* monitoring -> feedback and feedback -> monitoring
C21_PhaseFollowsGraph ==
    [][resp'.op \in EventOps =>
         LET before == user_states[resp'.user]
             after == user_states'[resp'.user]
         IN /\ \/ after.coaching_phase = before.coaching_phase
               \/ <<before.coaching_phase, after.coaching_phase>> \in PhaseEdges
            /\ \/ after.phase = before.phase
               \/ <<before.phase, after.phase>> \in PhaseEdges]_vars

\* C22: an event received while the session is in setup (intro) or in
\* feedback changes neither the detector state nor the rep count
C22_DetectorOnlyInMonitoring ==
    [][/\ resp'.op \in EventOps
       /\ IF resp'.op = "view_frame"
          THEN user_states[resp'.user].phase \in {"setup", "feedback"}
          ELSE user_states[resp'.user].coaching_phase \in {"intro", "feedback"}
       => /\ squat' = squat
          /\ CountOf(user_states'[resp'.user], resp'.op)
               = CountOf(user_states[resp'.user], resp'.op)]_vars

\* C26: a get_live_feedback request its own interval check admitted is not
\* turned away by the interval gate of analyze_live_frame
C26_AdmittedFeedbackNotRejected ==
    resp.op = "get_live_feedback" /\ resp.admitted => resp.gate = "open"

\* C27: a result of RealtimeCoachingService.analyze_live_frame has
\* movement_completed exactly when the event raised the rep count
C27_MovementCompletedIffCounted ==
    resp.op \in SvcOps /\ resp.admitted /\ resp.gate = "open"
    => (resp.movement_completed <=> resp.rep_after = resp.rep_before + 1)

\* C28: the rep_count an outbound result carries is the number of reps
\* counted so far in the user's session, on every path that reports one
C28_ReportedCountIsSessionCount ==
    resp.op \in EventOps /\ resp.rep_count # -1
    => resp.rep_count = CountOf(user_states[resp.user], resp.op)

\* C29: feedback delivered with should_provide_feedback is the analysis text
\* or the fallback text, never an error message of the wrapper
C29_NoWrapperErrorAsFeedback ==
    resp.op \in EventOps /\ resp.should_provide_feedback
    => resp.feedback.kind \in {AiText.kind, RepFallback(0).kind}

\* C30: one event makes at most one call to the analysis collaborator in
\* RealtimeCoachingService.analyze_live_frame
C30_AtMostOneCallPerEvent ==
    resp.op \in SvcOps => resp.calls <= 1

\* C15: in a squat session with a frame on every event the analysis service
\* is called once, by the batch the fifth completed rep fires: no event
\* before the fifth rep calls it, and the event that completes the fifth rep
\* calls it once
C15_FiveSquatsOneBatchCall ==
    resp.op = "view_frame" /\ resp.detector = "squat" /\ resp.status = 200
    => /\ (resp.rep_after < 5 => ~ReachesCollaborator(resp))
       /\ (resp.result = "True" /\ resp.rep_after = 5 => resp.calls = 1)

\* C17: after stop the user has no session entry and no coaching timer, and
\* the depth detector the user's next event runs on is in standing with an
\* empty history
C17_StopDestroysSession ==
    resp.op = "stop"
    => /\ user_states[resp.user] = NoUserState
       /\ last_coaching_time[resp.user] = -1
       /\ squat.current_state = "standing"
       /\ squat.min_depth_reached = 0
       /\ squat.position_history = <<>>

-----------------------------------------------------------------------------
(* Properties of the frame buffer (SpecBuffer) *)

\* C14: the frame buffer never holds more than 100 frames, and a push into
\* a full buffer drops the oldest frame and keeps the others, in arrival
\* order, followed by the new frame
C14_FrameBufferBounded ==
    [][/\ Len(frame_buffer') <= BufferCapacity
       /\ (resp'.op = "push" /\ Len(frame_buffer) = BufferCapacity
            => /\ Len(frame_buffer') = BufferCapacity
               /\ \A i \in 1..(BufferCapacity - 1) :
                     frame_buffer'[i] = frame_buffer[i + 1]
               /\ frame_buffer'[BufferCapacity] = now')]_vars

C14_Witness ==
    /\ resp.op = "push"
    /\ Len(frame_buffer) = BufferCapacity
    /\ frame_buffer[1] = Epoch + 3
    /\ frame_buffer[BufferCapacity] = Epoch + BufferCapacity + 2

-----------------------------------------------------------------------------
(* Properties of two users' sessions (SpecUsers) *)

UserOps == EventOps \cup {"start", "stop"}

\* C19: an event, start or stop of one user leaves every other user's
\* session entry (phase, rep counts, timers) and coaching timer as they were
C19_SessionsIndependent ==
    [][resp'.op \in UserOps =>
         \A u \in Users \ {resp'.user} :
            /\ user_states'[u] = user_states[u]
            /\ last_coaching_time'[u] = last_coaching_time[u]]_vars

C19_Witness ==
    /\ resp.op = "stop" /\ resp.user = "u1"
    /\ user_states["u2"].rep_count >= 1
    /\ user_states["u2"].reps_completed >= 1
    /\ last_coaching_time["u2"] > 0

-----------------------------------------------------------------------------
(* Properties of the detectors and of their state *)

\* the detector of the first category, in the order plank, swing sports,
\* basketball, strength reps, whose keyword the name contains
FirstCategoryDetector(activity_type) ==
    IF Contains(activity_type, "plank") THEN "plank"
    ELSE IF Contains(activity_type, "golf") \/ Contains(activity_type, "tennis")
    THEN "swing"
    ELSE IF Contains(activity_type, "basketball") THEN "basketball"
    ELSE IF Contains(activity_type, "squat") THEN "squat"
    ELSE IF Contains(activity_type, "pushup") \/ Contains(activity_type, "push-up")
    THEN "pushup"
    ELSE IF Contains(activity_type, "jumping jack") THEN "jumping jack"
    ELSE "generic"

\* an event of the method that got past both interval gates
Dispatched == resp.op = "realtime_coaching" /\ resp.admitted /\ resp.gate = "open"

\* C23: the detector an event is sent to is the one of the first category,
\* in the order plank, swing sports, basketball, strength reps, generic,
\* whose keyword the activity name contains
C23_DispatchOrder ==
    Dispatched => resp.detector = FirstCategoryDetector(resp.activity)

\* C32: in the monitoring phase an event without a completed rep, for a name
\* sent to the squat or the pushup detector, makes no collaborator call
C32_WaitForRepByDetector ==
    [][/\ resp'.op = "realtime_coaching" /\ resp'.admitted /\ resp'.gate = "open"
       /\ user_states[resp'.user].coaching_phase = "monitoring"
       /\ resp'.detector \in {"squat", "pushup"}
       /\ resp'.result # "True"
       => resp'.calls = 0]_vars

\* the event went to one of these detectors exactly when its interval is the
\* one get_coaching_interval gives these names and its strategy is this one
AgreesOn(r, detectors, names, strategy) ==
    r.detector \in detectors
    <=> /\ r.interval \in {GetCoachingInterval(n) : n \in names}
        /\ r.strategy = strategy

\* C24: the detector, the coaching interval and the feedback strategy of an
\* event are those of one and the same category
C24_DispatchersAgree ==
    Dispatched =>
        /\ AgreesOn(resp, {"squat", "pushup", "jumping jack"},
                    {"squat", "pushup", "jumping jacks"}, "rep_groups")
        /\ AgreesOn(resp, {"basketball"}, {"basketball shooting"}, "per_attempt")
        /\ AgreesOn(resp, {"swing"}, {"golf swing", "tennis practice"}, "per_swing")
        /\ AgreesOn(resp, {"plank"}, {"plank"}, "continuous_hold")

\* C5: a user's completion results are the ones the user's own frames alone
\* give; another user's frames do not reach the detector state used for them
C5_DetectorStatePerSession ==
    resp.op = "view_frame" => resp.result = resp.own_result

\* C6: two concurrent requests of one user that each detect a completed rep
\* leave the rep count exactly two higher
C6_NoLostRepUpdate ==
    (\A t \in 1..Len(threads) : threads[t].pc = "done")
    => user_states[ConcUser].rep_count
         = conc_base + Cardinality({t \in 1..Len(threads) : threads[t].detected})

\* C31: two requests of one user that were both admitted by
\* should_provide_coaching took their times at least one interval apart
C31_GateAdmitsOnePerInterval ==
    \A s \in 1..Len(threads) : \A t \in 1..Len(threads) :
        (/\ s # t
         /\ threads[s].admitted /\ threads[t].admitted
         /\ threads[s].current_time <= threads[t].current_time)
        => threads[t].current_time - threads[s].current_time
             >= GetCoachingInterval(GateActivity)

\* the detectors of one comparison on joint heights
SimpleDetectors == {"pushup", "basketball", "swing"}

\* C34: a call of the pushup, basketball or swing detector changes no state
\* of the service, and its result is the one the same landmarks give on a
\* new service, whatever was called before
C34_SimpleDetectorsStateless ==
    [][resp'.op = "detect" /\ resp'.detector \in SimpleDetectors
       => /\ resp'.result = resp'.fresh_result
          /\ UNCHANGED <<squat, user_states, last_coaching_time>>]_vars

\* a simple detector returned true after the depth detector's state had been
\* created and the clock had moved
C34_Witness ==
    /\ resp.op = "detect" /\ resp.detector \in SimpleDetectors
    /\ resp.result = "True"
    /\ squat.exists /\ squat.current_state # "standing"
    /\ now > Epoch

\* C35: a request of analyze_video that reaches the analysis collaborator
\* was counted once in the daily and in the hourly counter before the call,
\* and the count is still there when the request returns, whatever the
\* analysis answered
C35_AttemptCountedBeforeAnalysis ==
    [][resp'.op = "analyze_video" /\ resp'.calls >= 1 =>
         LET base == CanAnalyze(user_row, now).row
         IN /\ resp'.today_at_call = base.analyses_today + 1
            /\ resp'.hour_at_call = base.analyses_this_hour + 1
            /\ user_row'.analyses_today = resp'.today_at_call
            /\ user_row'.analyses_this_hour = resp'.hour_at_call]_vars

\* a second analysis of the hour failed and stays counted
C35_Witness ==
    /\ resp.op = "analyze_video" /\ resp.calls = 1
    /\ resp.outcome = "failure" /\ resp.status = 500
    /\ resp.hour_at_call = 2
    /\ user_row.analyses_this_hour = 2

\* C36: a request of analyze_video with valid coaching data and a valid
\* prompt but no video file is analysed by analyze_coaching_session and
\* raises no unhandled exception
C36_CoachingDataWithoutVideo ==
    (/\ resp.op = "analyze_video" /\ resp.status # 429
     /\ resp.coaching = "valid" /\ ~resp.has_video
     /\ resp.prompt \in {"template", "custom"})
    => /\ resp.collaborator = "analyze_coaching_session"
       /\ ~resp.unhandled

\* C8: on a missing, short or malformed landmark list
\* detect_movement_completion returns completed=false, changes no detector
\* state and raises nothing
C8_DetectorsFailSoft ==
    [][resp'.op = "detect" /\ resp'.malformed =>
         resp'.result = "False" /\ squat' = squat]_vars

\* C10: the jumping-jack detector never returns completed=true on a frame
\* where the arms are up; it does so only on the return to the rest pose
C10_JumpingJackOnlyOnReturn ==
    resp.op = "detect" /\ resp.detector = "jumping jack" /\ resp.result = "True"
    => ~resp.arms_up

====
